---- MODULE Spec2Model ----
(***************************************************************************)
(* Blackjack simulators of src/Blackjack/blackjack.py.                     *)
(*                                                                         *)
(* One simulator object is modelled at a time: a BlackjackEnv (cards       *)
(* sampled with replacement from the 13-entry list `deck`), a              *)
(* MyBlackjackEnv (cards removed from a 52-card Deck that repopulates      *)
(* itself when it empties), or, under SpecDeck, a Deck used on its own.    *)
(* Every action is one whole call of a method, the dealer's loop included. *)
(*                                                                         *)
(* Rewards are held as a number of halves (1.5 is 3, -1.0 is -2), since    *)
(* the natural payout 1.5 is not an integer.                               *)
(* self.cards of MyBlackjackEnv is a Python list whose order no method     *)
(* reads (append, clear and the count in cards_to_index only): it is held  *)
(* as a bag.                                                               *)
(***************************************************************************)
EXTENDS Integers, Sequences, FiniteSets, Bags, TLC

VARIABLES
    kind,        \* class of the object: "BlackjackEnv", "MyBlackjackEnv", "Deck"
    natural,     \* self.natural
    double,      \* self.double (BlackjackEnv)
    player,      \* self.player
    dealer,      \* self.dealer
    deck_cards,  \* self.deck.cards (Deck.cards), the shoe
    cards,       \* self.cards of MyBlackjackEnv, the exposure record
    ret,         \* what the last call returned
    trace,       \* history: the draws the last call made, in order
    drawn,       \* history: cards Deck.draw removed since Deck.reset last ran
    over         \* history: a step has returned done = True since the last reset

vars == <<kind, natural, double, player, dealer, deck_cards, cards, ret, trace, drawn,
          over>>

(* ------------------------------ bounds -------------------------------- *)

\* Deck.draw: the random indices n drawn during one call of a simulator's
\* method (or one call of Deck.draw on a Deck used alone) add up to at most
\* MaxSkew, so a call takes its cards from near the front of the shoe.
MaxSkew == 0

\* The same for Deck.draw called on a Deck used on its own (SpecDeck).
DeckSkew == 1

\* hit and double are called only while the player holds fewer cards.
MaxHand == 3

\* draw_card: this many entries of `deck`, evenly spread, are enumerated.
InfChoices == 2

\* The hands is_natural is applied to on its own hold up to MaxCards cards.
MaxCards == 3

\* An episode at the end of the shoe starts with 1..EndShoe cards left in it.
EndShoe == 2

(* --------------------------- card scoring ----------------------------- *)

RECURSIVE sum(_)
sum(hand) == IF hand = <<>> THEN 0 ELSE Head(hand) + sum(Tail(hand))

RECURSIVE Repeat(_, _)
Repeat(s, k) == IF k = 0 THEN <<>> ELSE s \o Repeat(s, k - 1)

RECURSIVE insert(_, _)
insert(x, s) ==
    IF s = <<>> THEN <<x>>
    ELSE IF x <= Head(s) THEN <<x>> \o s
    ELSE <<Head(s)>> \o insert(x, Tail(s))

\* Mutant of sorted: the hand as it is.
sorted_asDealt(hand) == hand

RECURSIVE sorted(_)
sorted(hand) == IF hand = <<>> THEN <<>> ELSE insert(Head(hand), sorted(Tail(hand)))

cmp(a, b) == (IF a > b THEN 1 ELSE 0) - (IF a < b THEN 1 ELSE 0)

deck == <<1, 2, 3, 4, 5, 6, 7, 8, 9, 10, 10, 10, 10>>

usable_ace(hand) == (\E i \in 1..Len(hand) : hand[i] = 1) /\ sum(hand) + 10 <= 21

sum_hand(hand) == IF usable_ace(hand) THEN sum(hand) + 10 ELSE sum(hand)

\* Mutant of is_bust: a total of exactly 21 counted as bust.
is_bust_at21(hand) == sum_hand(hand) >= 21

is_bust(hand) == sum_hand(hand) > 21

score(hand) == IF is_bust(hand) THEN 0 ELSE sum_hand(hand)

\* Mutant of is_natural: an ace and a ten among any number of cards.
is_natural_anyLength(hand) ==
    /\ \E i \in 1..Len(hand) : hand[i] = 1
    /\ \E i \in 1..Len(hand) : hand[i] = 10

is_natural(hand) == sorted(hand) = <<1, 10>>

\* A float of the code, as a number of halves.
Halves(x) == 2 * x

\* The literal 1.5, in halves.
NaturalPayout == 3

\* Mutant of DealerDraws: the dealer stands on 16.
DealerDraws_below16(hand) == sum_hand(hand) < 16

\* Mutant of DealerDraws: the dealer draws until bust.
DealerDraws_untilBust(hand) == sum_hand(hand) < 22

\* The condition of the dealer's while loop.
DealerDraws(hand) == sum_hand(hand) < 17

\* Mutant of StickReward: the natural payout without the test reward == 1.
StickReward_anyNatural(nat, p, d) ==
    LET reward == Halves(cmp(score(p), score(d)))
    IN  IF nat /\ is_natural(p) THEN NaturalPayout ELSE reward

\* cmp(score(player), score(dealer)), then the natural payout.
StickReward(nat, p, d) ==
    LET reward == Halves(cmp(score(p), score(d)))
    IN  IF nat /\ is_natural(p) /\ reward = Halves(1) THEN NaturalPayout ELSE reward

\* The double branch: the stick reward, then reward *= 2.
DoubleReward(nat, p, d) == StickReward(nat, p, d) * 2

\* The hit branch: (reward, done).
HitResult(p) ==
    IF is_bust(p) THEN [reward |-> Halves(-1), done |-> TRUE]
    ELSE [reward |-> Halves(0), done |-> FALSE]

\* Mutant of _get_obs: the dealer's newest card shown instead of the first.
_get_obs_lastDealer(p, d) == <<sum_hand(p), d[Len(d)], usable_ace(p)>>

_get_obs(p, d) == <<sum_hand(p), d[1], usable_ace(p)>>

(* -------------------------- the return value -------------------------- *)

\* A returned (observation, reward, done, info) tuple. info is the reseted
\* flag of MyBlackjackEnv; BlackjackEnv returns {} there, held as FALSE.
Returned(op, action, obs, reward, done, info) ==
    [op |-> op, action |-> action, error |-> FALSE,
     obs |-> obs, reward |-> reward, done |-> done, info |-> info]

\* Mutant of Raised: the call returns a result where it should raise.
Raised_asReturn(op, action) ==
    [op |-> op, action |-> action, error |-> FALSE,
     obs |-> <<0, 0, FALSE>>, reward |-> 0, done |-> FALSE, info |-> FALSE]

\* A call that raised instead of returning.
Raised(op, action) ==
    [op |-> op, action |-> action, error |-> TRUE,
     obs |-> <<0, 0, FALSE>>, reward |-> 0, done |-> FALSE, info |-> FALSE]

NoCall == Raised("none", 0)

(* -------------------------------- Deck -------------------------------- *)

\* Mutant of Deck_reset: the twelve face cards left out.
Deck_reset_noFaces == Repeat(<<1, 2, 3, 4, 5, 6, 7, 8, 9, 10>>, 4)

\* Deck.reset: [1..10]*4 followed by (4*3)*[10].
Deck_reset == Repeat(<<1, 2, 3, 4, 5, 6, 7, 8, 9, 10>>, 4) \o Repeat(<<10>>, 4 * 3)

\* np.random.randint(0, len(self.cards)): the indices enumerated, given
\* what is left of the call's MaxSkew.
randint(len, left) == {n \in 0..(len - 1) : n <= left}

\* Mutant of Delete: the last card leaves the shoe, whichever was drawn.
Delete_last(cs, n) == SubSeq(cs, 1, Len(cs) - 1)

\* del self.cards[n] (n counts from 0).
Delete(cs, n) == SubSeq(cs, 1, n) \o SubSeq(cs, n + 2, Len(cs))

\* Mutant of Deck_draw: the emptied shoe is not repopulated.
Deck_draw_noRefill(cs, n) ==
    [card |-> cs[n + 1], reseted |-> FALSE, cards |-> Delete(cs, n)]

\* Deck.draw with random index n: (card, reseted) and the cards left.
Deck_draw(cs, n) ==
    LET card == cs[n + 1]
        rest == Delete(cs, n)
    IN  IF Len(rest) = 0
        THEN [card |-> card, reseted |-> TRUE, cards |-> Deck_reset]
        ELSE [card |-> card, reseted |-> FALSE, cards |-> rest]

\* History kept beside Deck.draw: the cards removed since the shoe was filled.
DrawnAfter(dr, d) == IF d.reseted THEN EmptyBag ELSE dr (+) SetToBag({d.card})

(* ---------------------------- MyBlackjackEnv -------------------------- *)

\* Mutant of Expose: the record cleared first, the card appended after.
Expose_clearFirst(cs, card, reseted_) ==
    IF reseted_ THEN SetToBag({card}) ELSE cs (+) SetToBag({card})

\* self.cards.append(card); if reseted_: self.cards = []
Expose(cs, card, reseted_) ==
    LET appended == cs (+) SetToBag({card})
    IN  IF reseted_ THEN EmptyBag ELSE appended

\* Mutant of Flag: reseted = reseted_, the last draw's report overwriting.
Flag_last(reseted, reseted_) == reseted_

\* reseted = True under `if reseted_`, reseted unchanged otherwise.
Flag(reseted, reseted_) == reseted \/ reseted_

\* The state a call threads through its draws.
CallStart ==
    [deck_cards |-> deck_cards, cards |-> cards, drawn |-> drawn,
     trace |-> <<>>, reseted |-> FALSE, left |-> MaxSkew]

\* card, reseted_ = self.deck.draw() and the bookkeeping that follows it.
MyDraw(s, n) ==
    LET d  == Deck_draw(s.deck_cards, n)
        cs == Expose(s.cards, d.card, d.reseted)
    IN  [card |-> d.card,
         s |-> [deck_cards |-> d.cards,
                cards |-> cs,
                drawn |-> DrawnAfter(s.drawn, d),
                trace |-> Append(s.trace,
                                 [card |-> d.card, reseted |-> d.reseted, cards |-> cs]),
                reseted |-> Flag(s.reseted, d.reseted),
                left |-> s.left - n]]

\* Mutant of MyDeal: each card put at the front of the hand.
RECURSIVE MyDeal_front(_, _, _)
MyDeal_front(s, hand, k) ==
    IF k = 0 THEN {[s |-> s, hand |-> hand]}
    ELSE UNION {LET r == MyDraw(s, n) IN MyDeal_front(r.s, <<r.card>> \o hand, k - 1)
                : n \in randint(Len(s.deck_cards), s.left)}

\* k draws in a row, each appended to hand: every outcome [s, hand].
RECURSIVE MyDeal(_, _, _)
MyDeal(s, hand, k) ==
    IF k = 0 THEN {[s |-> s, hand |-> hand]}
    ELSE UNION {LET r == MyDraw(s, n) IN MyDeal(r.s, Append(hand, r.card), k - 1)
                : n \in randint(Len(s.deck_cards), s.left)}

\* Mutant of MyPlayDealer: `if` in place of `while`, one draw at most.
MyPlayDealer_once(s, hand) ==
    IF DealerDraws(hand)
    THEN {LET r == MyDraw(s, n) IN [s |-> r.s, hand |-> Append(hand, r.card)]
          : n \in randint(Len(s.deck_cards), s.left)}
    ELSE {[s |-> s, hand |-> hand]}

\* while sum_hand(self.dealer) < 17: draw and append to the dealer.
RECURSIVE MyPlayDealer(_, _)
MyPlayDealer(s, hand) ==
    IF DealerDraws(hand)
    THEN UNION {LET r == MyDraw(s, n) IN MyPlayDealer(r.s, Append(hand, r.card))
                : n \in randint(Len(s.deck_cards), s.left)}
    ELSE {[s |-> s, hand |-> hand]}

\* Mutant of cards_to_index: index[card-1] = 1 in place of += 1.
cards_to_index_presence(cs) == [v \in 1..10 |-> IF BagIn(v, cs) THEN 1 ELSE 0]

\* index = [0]*10; for card in self.cards: index[card-1] += 1. Entry v of
\* the tuple is index[v-1] of the code.
cards_to_index(cs) == [v \in 1..10 |-> CopiesIn(v, cs)]

\* Mutant of NewHand: the previous hand kept.
NewHand_kept(old) == old

\* self.player = [] and self.dealer = [] at the head of reset.
NewHand(old) == <<>>

\* Actions a caller passes to step; 3 stands for every value outside {0, 1, 2}.
ActionInputs == 0..3

MyInit ==
    /\ kind = "MyBlackjackEnv"
    /\ natural \in BOOLEAN
    /\ double = FALSE
    /\ player = <<>>
    /\ dealer = <<>>
    /\ deck_cards = Deck_reset
    /\ cards = EmptyBag
    /\ ret = NoCall
    /\ trace = <<>>
    /\ drawn = EmptyBag
    /\ over = FALSE

MyBlackjackEnv_reset ==
    /\ kind = "MyBlackjackEnv"
    /\ \E d \in MyDeal(CallStart, NewHand(dealer), 2) :
         \E p \in MyDeal(d.s, NewHand(player), 2) :
            /\ dealer' = d.hand
            /\ player' = p.hand
            /\ deck_cards' = p.s.deck_cards
            /\ cards' = p.s.cards
            /\ drawn' = p.s.drawn
            /\ trace' = p.s.trace
            /\ ret' = Returned("reset", 0, _get_obs(p.hand, d.hand), 0, FALSE, p.s.reseted)
    /\ over' = FALSE
    /\ UNCHANGED <<kind, natural, double>>

\* Callers follow the cycle reset -> step* -> reset: step is called once a
\* reset has dealt the hands.
MyBlackjackEnv_step(action) ==
    /\ kind = "MyBlackjackEnv"
    /\ dealer # <<>>
    /\ action \in {1, 2} => Len(player) < MaxHand
    /\ \/ /\ action = 1
          /\ \E p \in MyDeal(CallStart, player, 1) :
               /\ player' = p.hand
               /\ dealer' = dealer
               /\ deck_cards' = p.s.deck_cards
               /\ cards' = p.s.cards
               /\ drawn' = p.s.drawn
               /\ trace' = p.s.trace
               /\ ret' = Returned("step", action, _get_obs(p.hand, dealer),
                                  HitResult(p.hand).reward, HitResult(p.hand).done,
                                  p.s.reseted)
       \/ /\ action = 0
          /\ \E d \in MyPlayDealer(CallStart, dealer) :
               /\ player' = player
               /\ dealer' = d.hand
               /\ deck_cards' = d.s.deck_cards
               /\ cards' = d.s.cards
               /\ drawn' = d.s.drawn
               /\ trace' = d.s.trace
               /\ ret' = Returned("step", action, _get_obs(player, d.hand),
                                  StickReward(natural, player, d.hand), TRUE,
                                  d.s.reseted)
       \/ /\ action = 2
          /\ \E p \in MyDeal(CallStart, player, 1) :
               \E d \in MyPlayDealer(p.s, dealer) :
                  /\ player' = p.hand
                  /\ dealer' = d.hand
                  /\ deck_cards' = d.s.deck_cards
                  /\ cards' = d.s.cards
                  /\ drawn' = d.s.drawn
                  /\ trace' = d.s.trace
                  /\ ret' = Returned("step", action, _get_obs(p.hand, d.hand),
                                     DoubleReward(natural, p.hand, d.hand), TRUE,
                                     d.s.reseted)
       \/ /\ action \notin {0, 1, 2}
          /\ ret' = Raised("step", action)
          /\ trace' = <<>>
          /\ UNCHANGED <<player, dealer, deck_cards, cards, drawn>>
    /\ over' = (over \/ ret'.done)
    /\ UNCHANGED <<kind, natural, double>>

(* ----------------------------- BlackjackEnv --------------------------- *)

\* np_random.choice(deck): the positions of `deck` enumerated, InfChoices of
\* them spread evenly from the first entry to the last.
choice == {(j * (Len(deck) - 1)) \div (InfChoices - 1) : j \in 0..(InfChoices - 1)}

\* np_random, the generator a draw samples from: any generator, or one that
\* yields the positions of script, one per draw, and then no more.
AnyRandom == [free |-> TRUE, script |-> <<>>]

Scripted(ps) == [free |-> FALSE, script |-> ps]

\* The positions the k-th draw of a call can sample.
Sample(np_random, k) ==
    IF np_random.free THEN choice
    ELSE IF k <= Len(np_random.script) THEN {np_random.script[k]}
    ELSE {}

\* draw_card, the sampled position being i (from 0).
draw_card(i) == deck[i + 1]

\* One draw of BlackjackEnv as an entry of trace: no shoe, no exposure record.
Sampled(card) == [card |-> card, reseted |-> FALSE, cards |-> EmptyBag]

\* k cards drawn in a row from np_random and appended to hand, tr being the
\* draws the call has made so far: every outcome [trace, hand].
RECURSIVE DealFrom(_, _, _, _)
DealFrom(np_random, tr, hand, k) ==
    IF k = 0 THEN {[trace |-> tr, hand |-> hand]}
    ELSE UNION {DealFrom(np_random, Append(tr, Sampled(draw_card(i))),
                         Append(hand, draw_card(i)), k - 1)
                : i \in Sample(np_random, Len(tr) + 1)}

Deal(tr, hand, k) == DealFrom(AnyRandom, tr, hand, k)

\* draw_hand: two cards.
draw_hand(tr) == Deal(tr, <<>>, 2)

\* while sum_hand(self.dealer) < 17:
\*     self.dealer.append(draw_card(self.np_random))
RECURSIVE PlayDealerFrom(_, _, _)
PlayDealerFrom(np_random, tr, hand) ==
    IF DealerDraws(hand)
    THEN UNION {PlayDealerFrom(np_random, Append(tr, Sampled(draw_card(i))),
                               Append(hand, draw_card(i)))
                : i \in Sample(np_random, Len(tr) + 1)}
    ELSE {[trace |-> tr, hand |-> hand]}

PlayDealer(tr, hand) == PlayDealerFrom(AnyRandom, tr, hand)

\* self.action_space.contains(action), action_space being Discrete(3)
\* whether self.double is set or not.
action_space_contains(dbl, action) ==
    IF dbl THEN action \in 0..(3 - 1) ELSE action \in 0..(3 - 1)

\* What a call leaves behind: the hands, the draws it made, what it returned.
Outcome(p, d, tr, r) == [player |-> p, dealer |-> d, trace |-> tr, ret |-> r]

\* BlackjackEnv.reset, sampling from np_random: the dealer's hand first.
\* reset returns the observation alone: the reward, done and info of the
\* record are no part of it and are held at 0, FALSE, FALSE.
EnvReset(np_random) ==
    UNION {{Outcome(p.hand, d.hand, p.trace,
                    Returned("reset", 0, _get_obs(p.hand, d.hand), 0, FALSE, FALSE))
            : p \in DealFrom(np_random, d.trace, <<>>, 2)}
           : d \in DealFrom(np_random, <<>>, <<>>, 2)}

\* BlackjackEnv.step(action) on hands p and d, sampling from np_random. An action
\* the assert lets through and no branch takes leaves reward unbound at the
\* return statement: the call raises there too.
EnvStep(nat, dbl, p, d, action, np_random) ==
    IF ~action_space_contains(dbl, action)
    THEN {Outcome(p, d, <<>>, Raised("step", action))}
    ELSE IF action = 1
    THEN {Outcome(h.hand, d, h.trace,
                  Returned("step", action, _get_obs(h.hand, d),
                           HitResult(h.hand).reward, HitResult(h.hand).done, FALSE))
          : h \in DealFrom(np_random, <<>>, p, 1)}
    ELSE IF action = 0
    THEN {Outcome(p, e.hand, e.trace,
                  Returned("step", action, _get_obs(p, e.hand),
                           StickReward(nat, p, e.hand), TRUE, FALSE))
          : e \in PlayDealerFrom(np_random, <<>>, d)}
    ELSE IF action = 2
    THEN UNION {{Outcome(h.hand, e.hand, e.trace,
                         Returned("step", action, _get_obs(h.hand, e.hand),
                                  DoubleReward(nat, h.hand, e.hand), TRUE, FALSE))
                 : e \in PlayDealerFrom(np_random, h.trace, d)}
                : h \in DealFrom(np_random, <<>>, p, 1)}
    ELSE {Outcome(p, d, <<>>, Raised("step", action))}

\* __init__ ends with self.reset(): the object starts with both hands dealt.
EnvInit ==
    /\ kind = "BlackjackEnv"
    /\ natural \in BOOLEAN
    /\ double \in BOOLEAN
    /\ \E d \in draw_hand(<<>>) :
         \E p \in draw_hand(d.trace) :
            /\ dealer = d.hand
            /\ player = p.hand
            /\ trace = p.trace
    /\ deck_cards = <<>>
    /\ cards = EmptyBag
    /\ ret = NoCall
    /\ drawn = EmptyBag
    /\ over = FALSE

BlackjackEnv_reset ==
    /\ kind = "BlackjackEnv"
    /\ \E o \in EnvReset(AnyRandom) :
         /\ dealer' = o.dealer
         /\ player' = o.player
         /\ trace' = o.trace
         /\ ret' = o.ret
    /\ over' = FALSE
    /\ UNCHANGED <<kind, natural, double, deck_cards, cards, drawn>>

BlackjackEnv_step(action) ==
    /\ kind = "BlackjackEnv"
    /\ action \in {1, 2} => Len(player) < MaxHand
    /\ \E o \in EnvStep(natural, double, player, dealer, action, AnyRandom) :
         /\ player' = o.player
         /\ dealer' = o.dealer
         /\ trace' = o.trace
         /\ ret' = o.ret
    /\ over' = (over \/ ret'.done)
    /\ UNCHANGED <<kind, natural, double, deck_cards, cards, drawn>>

(* ------------------------- a Deck used on its own ---------------------- *)

DeckInit ==
    /\ kind = "Deck"
    /\ natural = FALSE
    /\ double = FALSE
    /\ player = <<>>
    /\ dealer = <<>>
    /\ deck_cards = Deck_reset
    /\ cards = EmptyBag
    /\ ret = NoCall
    /\ trace = <<>>
    /\ drawn = EmptyBag
    /\ over = FALSE

\* Deck.draw(): ret.obs[1] is the card and ret.info the reseted flag.
Deck_draw_call ==
    /\ kind = "Deck"
    /\ \E n \in randint(Len(deck_cards), DeckSkew) :
         LET d == Deck_draw(deck_cards, n)
         IN  /\ deck_cards' = d.cards
             /\ drawn' = DrawnAfter(drawn, d)
             /\ trace' = <<[card |-> d.card, reseted |-> d.reseted, cards |-> EmptyBag]>>
             /\ ret' = Returned("draw", 0, <<d.card, 0, FALSE>>, 0, FALSE, d.reseted)
    /\ UNCHANGED <<kind, natural, double, player, dealer, cards, over>>

\* Deck.reset() called from outside.
Deck_reset_call ==
    /\ kind = "Deck"
    /\ deck_cards' = Deck_reset
    /\ drawn' = EmptyBag
    /\ trace' = <<>>
    /\ ret' = Returned("Deck.reset", 0, <<0, 0, FALSE>>, 0, FALSE, FALSE)
    /\ UNCHANGED <<kind, natural, double, player, dealer, cards, over>>

(* ------------------- an episode at the end of the shoe ----------------- *)

\* The card values the end-of-shoe states are built from: those of the
\* sampled positions of `deck`.
EndValues == {draw_card(i) : i \in choice}

\* The values of a sequence of cards, counted.
CountIn(v, cs) == Cardinality({i \in 1..Len(cs) : cs[i] = v})

\* The cards of a sequence, as a bag.
RECURSIVE BagOf(_)
BagOf(cs) == IF cs = <<>> THEN EmptyBag ELSE BagOf(Tail(cs)) (+) SetToBag({Head(cs)})

\* The full deck less the cards of cs: what has left the shoe when cs is
\* what remains in it.
DrawnFrom(cs) == BagOf(Deck_reset) (-) BagOf(cs)

\* MyBlackjackEnv right after a reset that left 1..EndShoe cards in the
\* shoe. Deck.draw takes cards at random positions and reset may be called
\* at any time, so any few cards, in any order, can be what remains, and
\* any hands that the deck's composition allows next to them; the record
\* holds every other card, the last four being the reset's draws.
EndInit ==
    /\ kind = "MyBlackjackEnv"
    /\ natural \in BOOLEAN
    /\ double = FALSE
    /\ deck_cards \in UNION {[1..n -> EndValues] : n \in 1..EndShoe}
    /\ dealer \in [1..2 -> EndValues]
    /\ player \in [1..2 -> EndValues]
    /\ \A v \in EndValues :
          CountIn(v, dealer \o player \o deck_cards) <= CountIn(v, Deck_reset)
    /\ cards = DrawnFrom(deck_cards)
    /\ drawn = cards
    /\ trace = [i \in 1..4 |->
                  [card |-> (dealer \o player)[i],
                   reseted |-> FALSE,
                   cards |-> cards (-) BagOf(SubSeq(dealer \o player, i + 1, 4))]]
    /\ ret = Returned("reset", 0, _get_obs(player, dealer), 0, FALSE, FALSE)
    /\ over = FALSE

(* ---------------------- is_natural used on its own -------------------- *)

\* Any non-empty hand of up to MaxCards cards of values 1..10.
HandInit ==
    /\ kind = "hand"
    /\ natural = FALSE
    /\ double = FALSE
    /\ player \in UNION {[1..n -> 1..10] : n \in 1..MaxCards}
    /\ dealer = <<>>
    /\ deck_cards = <<>>
    /\ cards = EmptyBag
    /\ ret = NoCall
    /\ trace = <<>>
    /\ drawn = EmptyBag
    /\ over = FALSE

\* is_natural(hand): the boolean it returns is held in ret.info.
is_natural_call ==
    /\ kind = "hand"
    /\ ret' = Returned("is_natural", 0, <<0, 0, FALSE>>, 0, FALSE, is_natural(player))
    /\ UNCHANGED <<kind, natural, double, player, dealer, deck_cards, cards, trace,
                   drawn, over>>

(* ---------------------------- specifications -------------------------- *)

Init == EnvInit \/ MyInit

Next ==
    \/ BlackjackEnv_reset
    \/ \E action \in ActionInputs : BlackjackEnv_step(action)
    \/ MyBlackjackEnv_reset
    \/ \E action \in ActionInputs : MyBlackjackEnv_step(action)

Spec == Init /\ [][Next]_vars

NextDeck == Deck_draw_call \/ Deck_reset_call

SpecDeck == DeckInit /\ [][NextDeck]_vars

\* Either simulator, MyBlackjackEnv playing the episode it is in at the end
\* of the shoe.
NextEnd ==
    \/ BlackjackEnv_reset
    \/ \E action \in ActionInputs : BlackjackEnv_step(action)
    \/ \E action \in ActionInputs : MyBlackjackEnv_step(action)

InitEnd == EnvInit \/ EndInit

SpecEnd == InitEnd /\ [][NextEnd]_vars

NextHand == is_natural_call

SpecHand == HandInit /\ [][NextHand]_vars

(* ------------------------ what the claims speak of --------------------- *)

\* The last call was step(action) and it returned.
Stepped(r, action) == r.op = "step" /\ ~r.error /\ r.action = action

\* The last call was a reset that returned (of either simulator).
WasReset(r) == r.op = "reset" /\ ~r.error

\* hand is an extension of old by appended cards.
Extends(hand, old) == Len(hand) >= Len(old) /\ SubSeq(hand, 1, Len(old)) = old

\* The sign of x.
Sign(x) == IF x > 0 THEN 1 ELSE IF x < 0 THEN -1 ELSE 0

\* A two-card hand holding an ace and a ten.
AceAndTen(hand) == Len(hand) = 2 /\ {hand[1], hand[2]} = {1, 10}

\* Four of each of 1..9 and sixteen tens.
FullCount(v) == IF v = 10 THEN 16 ELSE 4

(* -------------------------------- C1 ---------------------------------- *)

\* C1: in a stick or double step the dealer draws exactly while the dealer's
\* total is below 17: on return the total is at least 17, the total before
\* each card the dealer took in the step was below 17, and a dealer already
\* at 17 or more takes no card.
C1_DealerDrawsBelow17 ==
    [][(Stepped(ret', 0) \/ Stepped(ret', 2)) =>
          /\ sum_hand(dealer') >= 17
          /\ Extends(dealer', dealer)
          /\ \A i \in (Len(dealer) + 1)..Len(dealer') :
                sum_hand(SubSeq(dealer', 1, i - 1)) < 17
          /\ (sum_hand(dealer) >= 17 => dealer' = dealer)]_vars

\* A stick on the finite deck in which the dealer took two cards.
C1_Witness ==
    /\ kind = "MyBlackjackEnv"
    /\ Stepped(ret, 0)
    /\ Len(trace) = 2
    /\ Len(dealer) = 4
    /\ sum_hand(dealer) >= 17

(* -------------------------------- C2 ---------------------------------- *)

\* C2: stick returns done = true and reward = sign(score(player) -
\* score(dealer)), except 1.5 exactly when the natural option is set, the
\* player holds a natural and the sign is +1 (1.0 with the option unset).
C2_StickReward ==
    Stepped(ret, 0) =>
        /\ ret.done
        /\ LET sign == Sign(score(player) - score(dealer))
           IN  ret.reward = IF natural /\ AceAndTen(player) /\ sign = 1
                            THEN 3
                            ELSE 2 * sign

\* A natural that won with the option set, paid 1.5.
C2_Witness ==
    /\ Stepped(ret, 0)
    /\ natural
    /\ AceAndTen(player)
    /\ ret.reward = 3

(* -------------------------------- C3 ---------------------------------- *)

\* C3: hit appends exactly one drawn card to the player's hand, leaves the
\* dealer alone, and returns reward -1 with done = true iff the player is
\* bust after that card, reward 0 with done = false otherwise.
C3_Hit ==
    [][Stepped(ret', 1) =>
          /\ Len(trace') = 1
          /\ player' = Append(player, trace'[1].card)
          /\ IF sum_hand(player') > 21
             THEN ret'.reward = -2 /\ ret'.done
             ELSE ret'.reward = 0 /\ ~ret'.done]_vars

\* A hit on the finite deck that went bust.
C3_Witness ==
    /\ kind = "MyBlackjackEnv"
    /\ Stepped(ret, 1)
    /\ sum_hand(player) > 21
    /\ ret.done

(* -------------------------------- C4 ---------------------------------- *)

\* C4: whenever a double draws the card that makes the player bust, the
\* dealer's hand is still played out and the reward is -2, for every dealer
\* outcome, a dealer bust included. (Stated where double is on offer: on
\* the finite deck, and on a BlackjackEnv built with double set.)
C4_DoubleBustPaysMinus2 ==
    (/\ Stepped(ret, 2)
     /\ kind = "BlackjackEnv" => double
     /\ is_bust(player)
     /\ ~is_bust(SubSeq(player, 1, Len(player) - 1)))
    => (sum_hand(dealer) >= 17 /\ ret.reward = -4)

(* -------------------------------- C5 ---------------------------------- *)

\* C5: after construction and after any sequence of Deck.draw and
\* Deck.reset calls the shoe holds between 1 and 52 cards, so every draw
\* finds a card to remove.
C5_ShoeNeverEmpty ==
    /\ Len(deck_cards) \in 1..52
    /\ randint(Len(deck_cards), 0) # {}

\* A single card is left: the next draw removes the last one.
C5_Witness ==
    /\ kind = "Deck"
    /\ ret.op = "draw"
    /\ Len(deck_cards) = 1

(* -------------------------------- C6 ---------------------------------- *)

\* C6: counted from a freshly populated shoe, draws 1 to 51 report
\* reshuffled = false and the 52nd reports true; the 52 cards drawn are the
\* full composition and the shoe holds the full composition again after the
\* 52nd; Deck.draw reports true iff it removed the last remaining card.
C6_FiftySecondDrawReshuffles ==
    [][(kind = "Deck" /\ ret'.op = "draw") =>
          LET k    == BagCardinality(drawn) + 1
              card == ret'.obs[1]
          IN  /\ k \in 1..52
              /\ ret'.info = (k = 52)
              /\ ret'.info = (Len(deck_cards) = 1)
              /\ card = trace'[1].card
              /\ ret'.info =>
                    /\ \A v \in 1..10 :
                          CopiesIn(v, drawn (+) SetToBag({card})) = FullCount(v)
                    /\ \A v \in 1..10 : CountIn(v, deck_cards') = FullCount(v)
                    /\ Len(deck_cards') = 52
              /\ ~ret'.info => Len(deck_cards') = 52 - k]_vars

\* The 52nd draw has just been made: reported, and the shoe is full again.
C6_Witness ==
    /\ kind = "Deck"
    /\ ret.op = "draw"
    /\ ret.info
    /\ Len(deck_cards) = 52
    /\ drawn = EmptyBag

(* -------------------------------- C7 ---------------------------------- *)

\* C7, as claimed: when a draw of reset or step on the finite deck reports
\* reshuffled = true, the exposure record holds exactly the card of that
\* draw right after the draw has been processed.
C7_TriggerCardRecorded ==
    kind = "MyBlackjackEnv" =>
        \A i \in 1..Len(trace) :
            trace[i].reseted =>
                \A v \in 1..10 :
                    CopiesIn(v, trace[i].cards) = IF v = trace[i].card THEN 1 ELSE 0

\* C7, amended: when a draw of reset or step on the finite deck reports
\* reshuffled = true, the card is appended and the record is then cleared:
\* right after the draw has been processed the exposure record is empty, and
\* the card of that draw is not in it. A draw that reports false leaves its
\* card in the record.
C7_TriggerCardDropped ==
    kind = "MyBlackjackEnv" =>
        \A i \in 1..Len(trace) :
            IF trace[i].reseted
            THEN BagCardinality(trace[i].cards) = 0
            ELSE CopiesIn(trace[i].card, trace[i].cards) >= 1

\* A step on the finite deck whose last draw emptied the shoe: the call
\* returns with an empty exposure record and a full shoe.
C7_Witness ==
    /\ kind = "MyBlackjackEnv"
    /\ ret.op = "step"
    /\ Len(trace) >= 1
    /\ trace[Len(trace)].reseted
    /\ BagCardinality(cards) = 0
    /\ Len(deck_cards) = 52

(* -------------------------------- C8 ---------------------------------- *)

\* C8: cards_to_index() is a length-10 vector whose entry for value v counts
\* the draws of v since the most recent reshuffle (since construction if
\* there was none), so it sums to the number of those draws, and it is
\* all-zero where a reshuffling draw clears the record.
C8_Histogram ==
    kind = "MyBlackjackEnv" =>
        LET index == cards_to_index(cards)
        IN  /\ Len(index) = 10
            /\ \A v \in 1..10 : index[v] = CopiesIn(v, drawn)
            /\ sum(index) = BagCardinality(drawn)
            /\ sum(index) = 52 - Len(deck_cards)
            /\ \A i \in 1..Len(trace) :
                  trace[i].reseted => cards_to_index(trace[i].cards) = [v \in 1..10 |-> 0]

\* A call in which the shoe was reshuffled and cards were drawn afterwards:
\* the histogram counts only the cards that came after.
C8_Witness ==
    /\ kind = "MyBlackjackEnv"
    /\ ret.info
    /\ sum(cards_to_index(cards)) \in 1..3
    /\ \E v \in 1..10 : cards_to_index(cards)[v] >= 1

(* -------------------------------- C9 ---------------------------------- *)

\* C9: the reshuffled flag a reset or step of the finite deck returns is
\* true iff at least one draw made during that call reported a reshuffle; a
\* call without draws, or whose draws all report false, returns false.
C9_FlagIsAnyDraw ==
    (kind = "MyBlackjackEnv" /\ (WasReset(ret) \/ (ret.op = "step" /\ ~ret.error))) =>
        /\ ret.info = (\E i \in 1..Len(trace) : trace[i].reseted)
        /\ WasReset(ret) => Len(trace) = 4

\* A reset whose first or second deal emptied the shoe, the later deals
\* reporting false.
C9_Witness ==
    /\ kind = "MyBlackjackEnv"
    /\ WasReset(ret)
    /\ ret.info
    /\ Len(trace) = 4
    /\ ~trace[3].reseted
    /\ ~trace[4].reseted

(* -------------------------------- C10 --------------------------------- *)

\* C10: reset, called in any state, discards the previous hands and leaves
\* both hands with exactly 2 cards, the dealer's two drawn before the
\* player's two. (The hands a BlackjackEnv starts with come from the reset
\* its constructor calls.)
C10_ResetDealsTwoEach ==
    (WasReset(ret) \/ (kind = "BlackjackEnv" /\ ret.op = "none")) =>
        /\ Len(trace) = 4
        /\ dealer = <<trace[1].card, trace[2].card>>
        /\ player = <<trace[3].card, trace[4].card>>

\* A reset on the finite deck after earlier episodes had drawn cards: the
\* hands are the four cards just dealt and nothing else.
C10_Witness ==
    /\ kind = "MyBlackjackEnv"
    /\ WasReset(ret)
    /\ BagCardinality(cards) > 8
    /\ Len(player) = 2
    /\ Len(dealer) = 2

(* -------------------------------- C11 --------------------------------- *)

\* C11: every observation a reset returns, and every observation a step
\* returns in an episode in which no earlier step had returned done = True,
\* has a player total in 0..31 and a dealer card in 1..10; the dealer card is
\* the first card of the dealer's hand, which is the first card the reset
\* dealt and which a step leaves where it was.
C11_ObservationRange ==
    [][(WasReset(ret') \/ (ret'.op = "step" /\ ~ret'.error /\ ~over)) =>
          /\ ret'.obs[1] \in 0..31
          /\ ret'.obs[2] \in 1..10
          /\ ret'.obs[2] = dealer'[1]
          /\ WasReset(ret') => ret'.obs[2] = trace'[1].card
          /\ ret'.op = "step" => ret'.obs[2] = dealer[1]]_vars

\* A hit to 21 on three cards in an episode that is still running: the
\* observation shows the total and the dealer's first card.
C11_Witness ==
    /\ Stepped(ret, 1)
    /\ ~over
    /\ Len(player) = 3
    /\ ret.obs[1] = 21
    /\ ret.obs[2] = dealer[1]
    /\ dealer[2] # dealer[1]

(* -------------------------------- C12 --------------------------------- *)

\* C12: in both simulators a step whose action is none of 0, 1, 2 raises
\* instead of returning a result, and leaves the player's hand, the dealer's
\* hand, the shoe and the exposure record as they were: no card is drawn.
C12_InvalidActionRaises ==
    [][(ret'.op = "step" /\ ret'.action \notin {0, 1, 2}) =>
          /\ ret'.error
          /\ trace' = <<>>
          /\ UNCHANGED <<player, dealer, deck_cards, cards, drawn>>]_vars

\* The finite deck, cards exposed, after a step with an invalid action.
C12_Witness ==
    /\ kind = "MyBlackjackEnv"
    /\ ret.op = "step"
    /\ ret.action \notin {0, 1, 2}
    /\ ret.error
    /\ BagCardinality(cards) >= 5
    /\ Len(player) = 3

(* -------------------------------- C13 --------------------------------- *)

\* C13: a BlackjackEnv built with double disabled accepts only the actions
\* 0 and 1: step(2) raises and draws no card.
C13_DoubleDisabledRejects2 ==
    (kind = "BlackjackEnv" /\ ~double /\ ret.op = "step" /\ ret.action = 2) =>
        /\ ret.error
        /\ trace = <<>>

(* -------------------------------- C14 --------------------------------- *)

\* The card values of a call's draws, in order.
CardsOf(tr) == [i \in 1..Len(tr) |-> tr[i].card]

\* The first position of `deck` holding the card value v.
PositionOf(v) == CHOOSE i \in 0..(Len(deck) - 1) :
                    /\ deck[i + 1] = v
                    /\ \A j \in 0..(i - 1) : deck[j + 1] # v

\* What BlackjackEnv does, from the hands p and d, when it is given the call
\* r reports and its generator yields the card values of tr in order.
SameCall(nat, dbl, p, d, r, tr) ==
    IF r.op = "reset"
    THEN EnvReset(Scripted([i \in 1..Len(tr) |-> PositionOf(tr[i].card)]))
    ELSE EnvStep(nat, dbl, p, d, r.action,
                 Scripted([i \in 1..Len(tr) |-> PositionOf(tr[i].card)]))

C15_NaturalIffAceAndTen ==
    ret.op = "is_natural" =>
        /\ ret.info = AceAndTen(player)
        /\ ret.info = (Len(player) = 2 /\ sum_hand(player) = 21)

\* is_natural has returned True for the ten dealt before the ace.
C15_Witness ==
    /\ ret.op = "is_natural"
    /\ ret.info
    /\ player = <<10, 1>>

(* -------------------------------- C16 --------------------------------- *)

\* C16: a step only appends to the hands. A hit leaves the dealer's hand as
\* it was and makes exactly one draw, also when the player goes bust; a
\* stick leaves the player's hand as it was; a double adds exactly one card
\* to the player's hand; every card a step draws goes to the end of one of
\* the hands and no card already held is removed or moved.
C16_HandsOnlyGrow ==
    [][(ret'.op = "step" /\ ~ret'.error) =>
          /\ Extends(player', player)
          /\ Extends(dealer', dealer)
          /\ Len(trace') = (Len(player') - Len(player)) + (Len(dealer') - Len(dealer))
          /\ ret'.action = 1 =>
                /\ dealer' = dealer
                /\ Len(trace') = 1
                /\ player' = Append(player, trace'[1].card)
          /\ ret'.action = 0 => player' = player
          /\ ret'.action = 2 => player' = Append(player, trace'[1].card)]_vars

\* A hit that went bust against a dealer still below 17: one draw was made
\* and the dealer holds the two cards of the reset.
C16_Witness ==
    /\ kind = "BlackjackEnv"
    /\ Stepped(ret, 1)
    /\ ret.done
    /\ is_bust(player)
    /\ Len(trace) = 1
    /\ Len(dealer) = 2
    /\ sum_hand(dealer) < 17

(* -------------------------------- C17 --------------------------------- *)

\* C17: if the dealer goes bust the player wins: a stick or double step,
\* taken in an episode that had not ended, that leaves the dealer's hand
\* bust returns a reward above 0. (For BlackjackEnv the double is taken
\* with double enabled.)
C17_DealerBustPlayerWins ==
    [][(/\ ~over
        /\ Stepped(ret', 0) \/ Stepped(ret', 2)
        /\ kind = "BlackjackEnv" /\ ret'.action = 2 => double
        /\ is_bust(dealer')) =>
          ret'.reward > 0]_vars

(* -------------------------------- C18 --------------------------------- *)

\* C18: every stick and every double ends, whatever cards are drawn: the
\* dealer's loop makes finitely many draws (each card counts 1 at least, so
\* no more than the dealer's hard total was short of 17), in the finite-deck
\* simulator also when a draw of the loop empties the shoe and the loop goes
\* on from the refilled shoe; on return the dealer's total is in 17..26.
C18_DealerLoopEnds ==
    [][(Stepped(ret', 0) \/ Stepped(ret', 2)) =>
          /\ sum_hand(dealer') \in 17..26
          /\ Len(dealer') - Len(dealer)
                <= (IF sum(dealer) < 17 THEN 17 - sum(dealer) ELSE 0)
          /\ Len(trace') <= 1 + (Len(dealer') - Len(dealer))]_vars

\* A stick on the finite deck in which a draw of the dealer's loop emptied
\* the shoe and the dealer went on drawing from the refilled shoe.
C18_Witness ==
    /\ kind = "MyBlackjackEnv"
    /\ Stepped(ret, 0)
    /\ \E i \in 1..(Len(trace) - 1) : trace[i].reseted
    /\ sum_hand(dealer) \in 17..26

(* -------------------------------- C19 --------------------------------- *)

\* C19: in the finite-deck simulator, after every reset and step, the cards
\* of the exposure record together with the cards left in the shoe are one
\* full deck, four of each of 1..9 and sixteen tens: the two lengths add up
\* to 52.
C19_CardConservation ==
    kind = "MyBlackjackEnv" =>
        /\ \A v \in 1..10 : CopiesIn(v, cards) + CountIn(v, deck_cards) = FullCount(v)
        /\ BagCardinality(cards) + Len(deck_cards) = 52

\* A returned step late in the shoe: twenty or more cards are on record.
C19_Witness ==
    /\ kind = "MyBlackjackEnv"
    /\ ret.op = "step"
    /\ ~ret.error
    /\ trace # <<>>
    /\ BagCardinality(cards) >= 20
    /\ Len(deck_cards) <= 32

(* -------------------------------- C20 --------------------------------- *)

\* C20: the reward of a double step is -2, 0 or +2 (held in halves: -4, 0,
\* 4), with the natural option set too: the player then holds at least
\* three cards, the hand is no natural, and the 1.5 payout, doubled to 3
\* (6 in halves), is never returned.
C20_DoubleRewardRange ==
    Stepped(ret, 2) =>
        /\ ret.reward \in {Halves(-2), Halves(0), Halves(2)}
        /\ Len(player) >= 3
        /\ ~is_natural(player)

\* The natural option set, the player dealt an ace and a ten, and the double
\* won: the reward is +2.
C20_Witness ==
    /\ natural
    /\ Stepped(ret, 2)
    /\ AceAndTen(SubSeq(player, 1, 2))
    /\ ret.reward = Halves(2)

====
